---- MODULE Spec2Model ----
(***************************************************************************)
(* Model of the finance tracker server (src/index.js): one express app     *)
(* whose route handlers each issue MongoDB calls on the single collection  *)
(* financeDB.finances.                                                     *)
(*                                                                         *)
(* Values.  A JSON/BSON field that is null, undefined or missing is the    *)
(* empty tuple None; a present scalar v is <<v>>.  Text that the code or   *)
(* the store parses (ids, dates) is a tuple of one-character strings.  An  *)
(* _id in the store is <<tag>> \o chars, the tag being its BSON type:      *)
(* "oid" for an ObjectId (chars = its hex digits) and "str" for a string.  *)
(* Field values are scalars; array-valued fields are not modelled.         *)
(***************************************************************************)
EXTENDS Integers, Sequences, FiniteSets, TLC

VARIABLES
    store,        \* the collection: a function from _id to the six fields
    nextOid,      \* the driver's ObjectId counter
    response,     \* what the last finished request handler sent (or did not)
    catReq,       \* the /category-stats request between its two awaits
    alive,        \* the node process is running
    everAssigned  \* history: every _id an insertOne has stored so far

vars == <<store, nextOid, response, catReq, alive, everAssigned>>

\* ------------------------------------------------------------- bounds
MaxCreates == 1   \* ObjectIds the driver generates in one behaviour
MaxRecords == 2   \* documents held by the collection at once

\* ------------------------------------------------------------- values
None == <<>>
Some(v) == <<v>>
IsSome(o) == o # None

Fields == {"title", "amount", "description", "date", "category", "type"}

RECURSIVE SumF(_, _)
SumF(f, S) ==
    IF S = {} THEN 0
    ELSE LET x == CHOOSE y \in S : TRUE IN f[x] + SumF(f, S \ {x})

\* All orderings of a finite set, as sequences without repetition.
Orderings(S) ==
    {q \in [1..Cardinality(S) -> S] : \A i, j \in 1..Cardinality(S) : q[i] = q[j] => i = j}

\* ------------------------------------------------------------- ObjectId
HexDigits == <<"0", "1", "2", "3", "4", "5", "6", "7",
               "8", "9", "a", "b", "c", "d", "e", "f">>
HexChars == {HexDigits[i] : i \in 1..Len(HexDigits)}

\* The hex text of an ObjectId: a fixed number of hex digits (24 in the
\* bson library, two here).
OidTexts == HexChars \X HexChars

\* The driver's primary-key factory: the ObjectId carrying counter value n.
CreatePk(n) ==
    <<"oid", HexDigits[(n \div Len(HexDigits)) + 1], HexDigits[(n % Len(HexDigits)) + 1]>>

\* new ObjectId(text) on a route parameter: a BSONError unless the text is the
\* hex form of an ObjectId.
ObjectIdThrows(text) == text \notin OidTexts
ObjectId(text) == <<"oid">> \o text

\* JSON serialisation of an _id in a response: an ObjectId becomes its hex
\* string, a string stays a string; the BSON type is lost.
IdToJson(id) == Tail(id)

\* ------------------------------------------------------------- requests
Jan15 == <<"2", "0", "2", "4", "-", "0", "1", "-", "1", "5">>
Jan20 == <<"2", "0", "2", "4", "-", "0", "1", "-", "2", "0">>
Dec05 == <<"2", "0", "2", "3", "-", "1", "2", "-", "0", "5">>
Slashed == <<"2", "0", "2", "4", "/", "0", "1", "/", "1", "5">>

Doc(t, a, d, dt, c, ty) ==
    [title |-> t, amount |-> a, description |-> d, date |-> dt, category |-> c, type |-> ty]

\* Request bodies of POST /finance.  The body is stored as it comes, so it
\* may carry its own _id (field id here).
Bodies ==
    { [id |-> None] @@ Doc(Some("lunch"), Some(100), Some("noodles"), Some(Jan15), Some("food"), Some("expense")),
      [id |-> None] @@ Doc(Some("pay"), Some(50), None, Some(Jan20), Some("salary"), Some("income")),
      [id |-> None] @@ Doc(Some("move"), Some(70), None, Some(Jan15), Some("misc"), Some("transfer")),
      [id |-> None] @@ Doc(Some("taxi"), Some(20), None, Some(Slashed), Some("taxi"), Some("expense")),
      [id |-> Some(<<"0", "7">>)] @@ Doc(Some("lunch"), Some(100), Some("noodles"), Some(Jan15), Some("food"), Some("expense")) }

\* Request bodies of PATCH /finance/:id; None is a field the body leaves out.
Patches ==
    { Doc(Some("gift"), Some(30), None, Some(Dec05), Some("gift"), Some("income")),
      Doc(None, None, None, None, None, None) }

\* Route parameters :id.
IdParams ==
    {IdToJson(CreatePk(n)) : n \in 0..(MaxCreates - 1)} \cup {<<"0", "7">>, <<"0", "x">>}

\* ------------------------------------------------------------- responses
NoRequest ==
    [op |-> "none", req |-> None, sent |-> FALSE, status |-> 0, body |-> None,
     failed |-> FALSE, calls |-> 0]

\* res.send(body): status 200 unless res.status() was called.
Send(op, req, status, body, failed, calls) ==
    [op |-> op, req |-> req, sent |-> TRUE, status |-> status, body |-> body,
     failed |-> failed, calls |-> calls]

Idle == [pc |-> "idle"]

\* A successful write while /category-stats waits for its second aggregate.
Touch(ids) ==
    IF catReq.pc = "idle" THEN catReq
    ELSE [catReq EXCEPT !.dirty = TRUE, !.stable = @ \ ids]

\* An async handler without try/catch whose promise rejects.  express 5 hands
\* the rejection to its default error handler (status 500); express 4 ignores
\* the promise, so nothing is sent, and node either only warns about the
\* unhandled rejection or (its default since version 15) ends the process.
Outcomes == {"error-handler", "warn", "exit"}

Rejected(op, req, failed, calls) ==
    \E o \in Outcomes :
        /\ response' = [op |-> op, req |-> req, sent |-> (o = "error-handler"),
                        status |-> IF o = "error-handler" THEN 500 ELSE 0,
                        body |-> None, failed |-> failed, calls |-> calls]
        /\ alive' = (o # "exit")

\* ------------------------------------------------------------- CRUD
Init ==
    /\ store = <<>>
    /\ nextOid = 0
    /\ response = NoRequest
    /\ catReq = Idle
    /\ alive = TRUE
    /\ everAssigned = {}

FieldsOf(body) == [f \in Fields |-> body[f]]

\* insertOne keeps a document's own _id and generates one only when it has
\* none; the generated id is made before the document is sent.
InsertId(body) ==
    IF IsSome(body.id) THEN <<"str">> \o body.id[1] ELSE CreatePk(nextOid)

\* POST /finance.  fail is the store call rejecting (as in every action
\* below); a duplicate _id rejects too (the unique index on _id).
Create(body, fail) ==
    /\ alive
    /\ Cardinality(DOMAIN store) < MaxRecords
    /\ ~IsSome(body.id) => nextOid < MaxCreates
    /\ nextOid' = IF IsSome(body.id) THEN nextOid ELSE nextOid + 1
    /\ LET id == InsertId(body) IN
          IF fail \/ id \in DOMAIN store
          THEN /\ Rejected("Create", Some(body), TRUE, 1)
               /\ UNCHANGED <<store, catReq, everAssigned>>
          ELSE /\ store' = [i \in DOMAIN store \cup {id} |->
                               IF i = id THEN FieldsOf(body) ELSE store[i]]
               /\ everAssigned' = everAssigned \cup {id}
               /\ response' = Send("Create", Some(body), 200,
                                   [acknowledged |-> TRUE, insertedId |-> IdToJson(id)],
                                   FALSE, 1)
               /\ catReq' = Touch({})
               /\ UNCHANGED alive

\* A document as a response carries it.  find().toArray() returns the
\* documents in natural order; the order is left out (a set).
Found(id) == [id |-> IdToJson(id)] @@ store[id]
AllDocs == {Found(id) : id \in DOMAIN store}

\* GET /finance
ListAll(fail) ==
    /\ alive
    /\ IF fail
       THEN Rejected("ListAll", None, TRUE, 1)
       ELSE /\ response' = Send("ListAll", None, 200, AllDocs, FALSE, 1)
            /\ UNCHANGED alive
    /\ UNCHANGED <<store, nextOid, catReq, everAssigned>>

\* GET /finance/:id
GetById(id, fail) ==
    /\ alive
    /\ IF ObjectIdThrows(id)
       THEN Rejected("GetById", [id |-> id], FALSE, 0)
       ELSE IF fail
       THEN Rejected("GetById", [id |-> id], TRUE, 1)
       ELSE /\ response' = Send("GetById", [id |-> id], 200,
                                IF ObjectId(id) \in DOMAIN store
                                THEN Some(Found(ObjectId(id))) ELSE None,
                                FALSE, 1)
            /\ UNCHANGED alive
    /\ UNCHANGED <<store, nextOid, catReq, everAssigned>>

\* DELETE /finance/:id
DeleteById(id, fail) ==
    /\ alive
    /\ IF ObjectIdThrows(id)
       THEN /\ Rejected("DeleteById", [id |-> id], FALSE, 0)
            /\ UNCHANGED <<store, catReq>>
       ELSE IF fail
       THEN /\ Rejected("DeleteById", [id |-> id], TRUE, 1)
            /\ UNCHANGED <<store, catReq>>
       ELSE LET hit == ObjectId(id) \in DOMAIN store IN
            /\ store' = [i \in DOMAIN store \ {ObjectId(id)} |-> store[i]]
            /\ catReq' = IF hit THEN Touch({ObjectId(id)}) ELSE catReq
            /\ response' = Send("DeleteById", [id |-> id], 200,
                                [acknowledged |-> TRUE,
                                 deletedCount |-> IF hit THEN 1 ELSE 0],
                                FALSE, 1)
            /\ UNCHANGED alive
    /\ UNCHANGED <<nextOid, everAssigned>>

\* Variant: a partial merge, keeping the old value of a field the body lacks.
UpdatedDocMerge(old, data) ==
    [f \in Fields |-> IF IsSome(data[f]) THEN data[f] ELSE old[f]]

\* The $set document of the PATCH handler: every one of the six fields is
\* named; data?.field is undefined for a field the body lacks, and the driver
\* serialises undefined as null.
UpdatedDoc(old, data) ==
    [title |-> data.title, amount |-> data.amount, description |-> data.description,
     date |-> data.date, category |-> data.category, type |-> data.type]

\* PATCH /finance/:id
UpdateById(id, data, fail) ==
    /\ alive
    /\ IF ObjectIdThrows(id)
       THEN /\ Rejected("UpdateById", [id |-> id, data |-> data, before |-> None], FALSE, 0)
            /\ UNCHANGED <<store, catReq>>
       ELSE IF fail
       THEN /\ Rejected("UpdateById", [id |-> id, data |-> data, before |-> None], TRUE, 1)
            /\ UNCHANGED <<store, catReq>>
       ELSE LET oid == ObjectId(id)
                hit == oid \in DOMAIN store
                new == UpdatedDoc(store[oid], data)
                mod == hit /\ new # store[oid]
            IN  /\ store' = IF hit THEN [store EXCEPT ![oid] = new] ELSE store
                /\ catReq' = IF mod THEN Touch({oid}) ELSE catReq
                /\ response' = Send("UpdateById",
                                    [id |-> id, data |-> data,
                                     before |-> IF hit THEN Some(store[oid]) ELSE None],
                                    200,
                                    [acknowledged |-> TRUE,
                                     matchedCount |-> IF hit THEN 1 ELSE 0,
                                     modifiedCount |-> IF mod THEN 1 ELSE 0],
                                    FALSE, 1)
                /\ UNCHANGED alive
    /\ UNCHANGED <<nextOid, everAssigned>>

\* ------------------------------------------------------------- aggregation
\* $sum adds numeric values and ignores a null or missing one.
Num(a) == IF IsSome(a) THEN a[1] ELSE 0

\* Variant: the amount is added whatever the type.
CondAmountAnyType(doc, ty) == Num(doc.amount)

\* $cond: [{$eq: ["$type", ty]}, "$amount", 0]
CondAmount(doc, ty) == IF doc.type = Some(ty) THEN Num(doc.amount) ELSE 0

Digits == {HexDigits[i] : i \in 1..10}
DigitVal(c) == (CHOOSE i \in 1..10 : HexDigits[i] = c) - 1

\* The text matches the format "%Y-%m-%d".
MatchesFormat(s) ==
    /\ Len(s) = 10
    /\ s[5] = "-" /\ s[8] = "-"
    /\ \A i \in {1, 2, 3, 4, 6, 7, 9, 10} : s[i] \in Digits
    /\ 10 * DigitVal(s[6]) + DigitVal(s[7]) \in 1..12
    /\ 10 * DigitVal(s[9]) + DigitVal(s[10]) \in 1..31

\* $dateFromString raises an error on text that does not match its format
\* (no onError is given) and yields null for a null or missing dateString.
DateFromStringFails(date) == IsSome(date) /\ ~MatchesFormat(date[1])

DateFromString(date) ==
    IF ~IsSome(date) THEN None
    ELSE LET s == date[1] IN
         Some([year |-> 1000 * DigitVal(s[1]) + 100 * DigitVal(s[2])
                        + 10 * DigitVal(s[3]) + DigitVal(s[4]),
               month |-> 10 * DigitVal(s[6]) + DigitVal(s[7]),
               day |-> 10 * DigitVal(s[9]) + DigitVal(s[10])])

\* {year: {$year: "$parsedDate"}, month: {$month: "$parsedDate"}}; both are
\* null for a null date.
MonthKey(doc) ==
    LET parsedDate == DateFromString(doc.date) IN
    IF parsedDate = None THEN [year |-> None, month |-> None]
    ELSE [year |-> Some(parsedDate[1].year), month |-> Some(parsedDate[1].month)]

\* totalStats facet: one group with _id null, and no group for no documents.
TotalStats(docs) ==
    LET D == DOMAIN docs IN
    IF D = {} THEN <<>>
    ELSE << [id |-> None,
             totalExpense |-> SumF([i \in D |-> CondAmount(docs[i], "expense")], D),
             totalIncome |-> SumF([i \in D |-> CondAmount(docs[i], "income")], D),
             totalTransactions |-> SumF([i \in D |-> 1], D)] >>

\* categoryStats facet: one group per category, in no particular order.
CategoryStats(docs) ==
    LET D == DOMAIN docs IN
    { [id |-> c,
       totalExpense |-> SumF([i \in D |-> IF docs[i].category = c
                                          THEN CondAmount(docs[i], "expense") ELSE 0], D),
       totalIncome |-> SumF([i \in D |-> IF docs[i].category = c
                                         THEN CondAmount(docs[i], "income") ELSE 0], D)]
      : c \in {docs[i].category : i \in D} }

\* BSON order of the values a month key holds: null before every number.
OptLess(a, b) == IF IsSome(a) THEN IsSome(b) /\ a[1] < b[1] ELSE IsSome(b)

\* Variant: the month alone decides the order.
MonthBeforeByMonthOnly(a, b) == OptLess(a.id.month, b.id.month)

\* $sort: {"_id.year": 1, "_id.month": 1}
MonthBefore(a, b) ==
    \/ OptLess(a.id.year, b.id.year)
    \/ a.id.year = b.id.year /\ OptLess(a.id.month, b.id.month)

\* monthlyStats facet, once every date has parsed.
MonthlyGroups(docs) ==
    LET D == DOMAIN docs IN
    { [id |-> k,
       totalExpense |-> SumF([i \in D |-> IF MonthKey(docs[i]) = k
                                          THEN CondAmount(docs[i], "expense") ELSE 0], D),
       totalIncome |-> SumF([i \in D |-> IF MonthKey(docs[i]) = k
                                         THEN CondAmount(docs[i], "income") ELSE 0], D)]
      : k \in {MonthKey(docs[i]) : i \in D} }

MonthlyStats(docs) ==
    {q \in Orderings(MonthlyGroups(docs)) :
        \A i, j \in 1..Len(q) : i < j => MonthBefore(q[i], q[j])}

\* GET /finance-stats: one aggregate whose failure, like the TypeError of
\* reading totalStats[0] of an empty facet, lands in the catch block.
FinanceStats(fail) ==
    /\ alive
    /\ IF \/ fail
          \/ \E i \in DOMAIN store : DateFromStringFails(store[i].date)
          \/ TotalStats(store) = <<>>
       THEN response' = Send("FinanceStats", None, 500,
                             [error |-> "Error fetching finance stats"], fail, 1)
       ELSE \E cs \in Orderings(CategoryStats(store)), ms \in MonthlyStats(store) :
               response' = Send("FinanceStats", None, 200,
                                [totalExpense |-> TotalStats(store)[1].totalExpense,
                                 totalIncome |-> TotalStats(store)[1].totalIncome,
                                 totalTransactions |-> TotalStats(store)[1].totalTransactions,
                                 categoryStats |-> cs,
                                 monthlyStats |-> ms],
                                FALSE, 1)
    /\ UNCHANGED <<store, nextOid, catReq, alive, everAssigned>>

\* Variant: no filter on the type.
MatchAll(docs, ty) == DOMAIN docs

\* $match: {type: ty}
Match(docs, ty) == {i \in DOMAIN docs : docs[i].type = Some(ty)}

\* $group by category with categoryCount and totalAmount.
GroupByCategory(docs, ids) ==
    { [id |-> c,
       categoryCount |-> SumF([i \in ids |-> IF docs[i].category = c THEN 1 ELSE 0], ids),
       totalAmount |-> SumF([i \in ids |-> IF docs[i].category = c
                                           THEN Num(docs[i].amount) ELSE 0], ids)]
      : c \in {docs[i].category : i \in ids} }

\* Variant: ascending order.
SortByTotalAsc(groups) ==
    {q \in Orderings(groups) :
        \A i, j \in 1..Len(q) : i < j => q[i].totalAmount <= q[j].totalAmount}

\* $sort: {totalAmount: -1}; groups of equal totalAmount come in any order.
SortByTotalDesc(groups) ==
    {q \in Orderings(groups) :
        \A i, j \in 1..Len(q) : i < j => q[i].totalAmount >= q[j].totalAmount}

ExpenseStats(docs) == SortByTotalDesc(GroupByCategory(docs, Match(docs, "expense")))
IncomeStats(docs) == SortByTotalDesc(GroupByCategory(docs, Match(docs, "income")))

\* GET /category-stats up to its second await: the expense aggregate.
CategoryStatsExpense(fail) ==
    /\ alive
    /\ catReq.pc = "idle"
    /\ IF fail
       THEN /\ response' = Send("CategoryStats", None, 500,
                                [error |-> "Error fetching category stats"], TRUE, 1)
            /\ UNCHANGED catReq
       ELSE /\ \E es \in ExpenseStats(store) :
                  catReq' = [pc |-> "income", expenseStats |-> es,
                             matchedExp |-> Match(store, "expense"),
                             stable |-> Match(store, "expense") \cup Match(store, "income"),
                             dirty |-> FALSE]
            /\ UNCHANGED response
    /\ UNCHANGED <<store, nextOid, alive, everAssigned>>

\* GET /category-stats from its second await: the income aggregate and the
\* response.
CategoryStatsIncome(fail) ==
    /\ alive
    /\ catReq.pc = "income"
    /\ IF fail
       THEN response' = Send("CategoryStats", None, 500,
                             [error |-> "Error fetching category stats"], TRUE, 2)
       ELSE \E is \in IncomeStats(store) :
               response' = Send("CategoryStats",
                                [matchedExp |-> catReq.matchedExp,
                                 matchedInc |-> Match(store, "income"),
                                 stable |-> catReq.stable,
                                 dirty |-> catReq.dirty],
                                200,
                                [expenseStats |-> catReq.expenseStats, incomeStats |-> is],
                                FALSE, 2)
    /\ catReq' = Idle
    /\ UNCHANGED <<store, nextOid, alive, everAssigned>>

\* GET /
Root ==
    /\ alive
    /\ response' = Send("Root", None, 200, Some("running"), FALSE, 0)
    /\ UNCHANGED <<store, nextOid, catReq, alive, everAssigned>>

Next ==
    \/ \E body \in Bodies, fail \in BOOLEAN : Create(body, fail)
    \/ \E fail \in BOOLEAN : ListAll(fail)
    \/ \E id \in IdParams, fail \in BOOLEAN : GetById(id, fail)
    \/ \E id \in IdParams, fail \in BOOLEAN : DeleteById(id, fail)
    \/ \E id \in IdParams, data \in Patches, fail \in BOOLEAN : UpdateById(id, data, fail)
    \/ \E fail \in BOOLEAN : FinanceStats(fail)
    \/ \E fail \in BOOLEAN : CategoryStatsExpense(fail)
    \/ \E fail \in BOOLEAN : CategoryStatsIncome(fail)
    \/ Root

Spec == Init /\ [][Next]_vars
\* ------------------------------------------------------------- properties
Answered(op) == response.op = op /\ response.sent /\ response.status = 200

\* Reference sums, by filtering the collection first.
RecordsOfType(ty) == {i \in DOMAIN store : store[i].type = Some(ty)}
AmountSum(ids) == SumF([i \in ids |-> Num(store[i].amount)], ids)
Typed == RecordsOfType("expense") \cup RecordsOfType("income")

DatesParseOrNull == \A i \in DOMAIN store : ~DateFromStringFails(store[i].date)
DatesWellFormed ==
    \A i \in DOMAIN store : IsSome(store[i].date) /\ MatchesFormat(store[i].date[1])

TotalsRight ==
    /\ response.body.totalExpense = AmountSum(RecordsOfType("expense"))
    /\ response.body.totalIncome = AmountSum(RecordsOfType("income"))
    /\ response.body.totalTransactions = Cardinality(DOMAIN store)

\* C1: /finance-stats on an empty collection answers 200 with zero totals and
\* two empty lists.
C1_EmptyStoreZeroStats ==
    (response.op = "FinanceStats" /\ ~response.failed /\ DOMAIN store = {})
    => /\ Answered("FinanceStats")
       /\ response.body = [totalExpense |-> 0, totalIncome |-> 0, totalTransactions |-> 0,
                           categoryStats |-> <<>>, monthlyStats |-> <<>>]

\* C2 as stated: on every non-empty collection /finance-stats answers with
\* totalExpense and totalIncome the sums of amount over the expense and the
\* income records, and totalTransactions the number of all records.
C2_TotalsOnEveryNonEmptyStore ==
    (response.op = "FinanceStats" /\ ~response.failed /\ DOMAIN store # {})
    => Answered("FinanceStats") /\ TotalsRight

\* C2 as amended: the same, on every non-empty collection in which each
\* record's date is null, missing or text in the format YYYY-MM-DD.
C2_TotalsWhenDatesParse ==
    (response.op = "FinanceStats" /\ ~response.failed /\ DOMAIN store # {}
     /\ DatesParseOrNull)
    => Answered("FinanceStats") /\ TotalsRight

C2_Witness ==
    /\ Answered("FinanceStats")
    /\ \E i \in DOMAIN store \ Typed : IsSome(store[i].amount)
    /\ response.body.totalExpense > 0
    /\ response.body.totalTransactions = 2

\* C3: a malformed :id gets a client-error (4xx) answer, unlike the answer for
\* a well-formed id that matches nothing, and the process goes on.
C3_MalformedIdIsClientError ==
    (response.op \in {"GetById", "DeleteById", "UpdateById"}
     /\ ObjectIdThrows(response.req.id))
    => response.sent /\ response.status \in 400..499 /\ alive

\* C4: a request whose store call failed issued that call once, got an error
\* answer (status 500 with a message for the two aggregations), and the
\* process goes on.
C4_StoreFailureIsAnswered ==
    response.failed
    => /\ response.calls <= (IF response.op = "CategoryStats" THEN 2 ELSE 1)
       /\ response.sent /\ response.status >= 400
       /\ response.op \in {"FinanceStats", "CategoryStats"}
             => response.status = 500 /\ "error" \in DOMAIN response.body
       /\ alive

\* C5: after a PATCH that matched a record, each of its six fields holds the
\* body's value, and null where the body has no such field.
C5_UpdateReplacesAllSixFields ==
    (Answered("UpdateById") /\ response.body.matchedCount = 1)
    => /\ ObjectId(response.req.id) \in DOMAIN store
       /\ \A f \in Fields : store[ObjectId(response.req.id)][f] = response.req.data[f]

C5_Witness ==
    /\ Answered("UpdateById") /\ response.body.matchedCount = 1
    /\ ~IsSome(response.req.data.description)
    /\ IsSome(response.req.data.title)
    /\ IsSome(response.req.before[1].description)
    /\ ~IsSome(store[ObjectId(response.req.id)].description)

\* C6: every _id a Create stores is generated by the store, whatever the body
\* holds, and has never been the _id of a record before.
C6_IdsGeneratedOnceByStore ==
    [][\A i \in DOMAIN store' \ DOMAIN store :
          i \notin everAssigned /\ \E n \in 0..MaxCreates : i = CreatePk(n)]_vars

\* C7: a GetById of the id a Create has just acknowledged answers with the
\* record made of the Create's fields and that id.
C7_GetAfterCreate ==
    [][(/\ response.op = "Create" /\ response.sent /\ response.status = 200
        /\ response'.op = "GetById" /\ ~response'.failed
        /\ response'.req.id = response.body.insertedId)
       => /\ response'.sent /\ response'.status = 200
          /\ response'.body = Some([id |-> response.body.insertedId]
                                   @@ FieldsOf(response.req[1]))]_vars

YearMonth(i) == MonthKey(store[i])

MonthlyRight(ms) ==
    /\ {ms[k].id : k \in 1..Len(ms)} = {YearMonth(i) : i \in DOMAIN store}
    /\ Len(ms) = Cardinality({YearMonth(i) : i \in DOMAIN store})
    /\ \A k, l \in 1..Len(ms) :
          k < l => \/ ms[k].id.year[1] < ms[l].id.year[1]
                   \/ /\ ms[k].id.year = ms[l].id.year
                      /\ ms[k].id.month[1] < ms[l].id.month[1]
    /\ \A k \in 1..Len(ms) :
          /\ ms[k].totalExpense =
                AmountSum({i \in RecordsOfType("expense") : YearMonth(i) = ms[k].id})
          /\ ms[k].totalIncome =
                AmountSum({i \in RecordsOfType("income") : YearMonth(i) = ms[k].id})

\* C8: on every collection whose dates are all text in the format YYYY-MM-DD,
\* /finance-stats answers with a monthlyStats list holding one entry per
\* (year, month) of a record, ascending by (year, month), each entry with the
\* expense and income sums of the records of that month.
C8_MonthlyStats ==
    (response.op = "FinanceStats" /\ ~response.failed /\ DatesWellFormed)
    => Answered("FinanceStats") /\ MonthlyRight(response.body.monthlyStats)

\* The same on the non-empty collections, with the scenario of one expense of
\* 100 on 2024-01-15 and one income of 50 on 2024-01-20.
MonthlyStatsOnNonEmptyStore ==
    (response.op = "FinanceStats" /\ ~response.failed /\ DatesWellFormed
     /\ DOMAIN store # {})
    => /\ Answered("FinanceStats") /\ MonthlyRight(response.body.monthlyStats)
       /\ (/\ Cardinality(DOMAIN store) = 2
           /\ {[a |-> store[i].amount, d |-> store[i].date, t |-> store[i].type] :
                  i \in DOMAIN store}
                = {[a |-> Some(100), d |-> Some(Jan15), t |-> Some("expense")],
                   [a |-> Some(50), d |-> Some(Jan20), t |-> Some("income")]})
          => response.body.monthlyStats =
                << [id |-> [year |-> Some(2024), month |-> Some(1)],
                    totalExpense |-> 100, totalIncome |-> 50] >>

MonthlyStatsSortedReached ==
    /\ Answered("FinanceStats") /\ DatesWellFormed
    /\ Len(response.body.monthlyStats) = 2
    /\ response.body.monthlyStats[1].id = [year |-> Some(2023), month |-> Some(12)]

RankingRight(list, ty) ==
    LET cats == {store[i].category : i \in RecordsOfType(ty)} IN
    /\ {list[k].id : k \in 1..Len(list)} = cats
    /\ Len(list) = Cardinality(cats)
    /\ \A k \in 1..Len(list) :
          LET in == {i \in RecordsOfType(ty) : store[i].category = list[k].id} IN
          /\ list[k].categoryCount = Cardinality(in)
          /\ list[k].totalAmount = AmountSum(in)
    /\ \A k, l \in 1..Len(list) : k < l => list[k].totalAmount >= list[l].totalAmount

\* C9: each list of /category-stats has one entry per category of the records
\* of its type in the collection the aggregate read, with their number and
\* the sum of their amounts, descending by totalAmount; an empty collection
\* gives two empty lists and status 200.
C9_CategoryRankings ==
    /\ (catReq.pc = "income" /\ ~catReq.dirty)
          => RankingRight(catReq.expenseStats, "expense")
    /\ (response.op = "CategoryStats" /\ ~response.failed)
          => /\ Answered("CategoryStats")
             /\ RankingRight(response.body.incomeStats, "income")
             /\ ~response.req.dirty
                   => RankingRight(response.body.expenseStats, "expense")
             /\ (DOMAIN store = {} /\ ~response.req.dirty)
                   => response.body = [expenseStats |-> <<>>, incomeStats |-> <<>>]

C9_Witness ==
    /\ Answered("CategoryStats") /\ ~response.req.dirty
    /\ Len(response.body.expenseStats) = 2
    /\ response.body.expenseStats[1].totalAmount > response.body.expenseStats[2].totalAmount

InExactlyOne(i) == (i \in response.req.matchedExp) # (i \in response.req.matchedInc)

Counted(list) == SumF([k \in 1..Len(list) |-> list[k].categoryCount], 1..Len(list))

\* C10 as stated: whatever writes run during /category-stats, no record is
\* counted in both lists, and a record that keeps type income or expense
\* through the call is counted in exactly one.
C10_ListsFromOneState ==
    Answered("CategoryStats")
    => /\ response.req.matchedExp \cap response.req.matchedInc = {}
       /\ \A i \in response.req.stable : InExactlyOne(i)

\* C10 as amended: expenseStats counts the expense records at the first
\* aggregate and incomeStats the income records at the second; a record left
\* untouched through the call with type income or expense is counted in
\* exactly one list; and when no write lands between the two aggregates no
\* record is counted in both and every income or expense record is counted in
\* exactly one.
C10_ListsPerAggregate ==
    Answered("CategoryStats")
    => /\ Counted(response.body.expenseStats) = Cardinality(response.req.matchedExp)
       /\ Counted(response.body.incomeStats) = Cardinality(response.req.matchedInc)
       /\ response.req.matchedInc = RecordsOfType("income")
       /\ \A i \in response.req.stable : InExactlyOne(i)
       /\ ~response.req.dirty
             => /\ response.req.matchedExp \cap response.req.matchedInc = {}
                /\ response.req.matchedExp = RecordsOfType("expense")
                /\ \A i \in Typed : InExactlyOne(i)

C10_Witness ==
    /\ Answered("CategoryStats")
    /\ response.req.dirty
    /\ response.req.stable # {}
    /\ response.req.matchedInc # {}
====
